---- MODULE Spec2Model ----
(***************************************************************************)
(* VSync (repositorio_back/core): the odometer ledger (Hodometro), the     *)
(* refueling ledger (Abastecimento) and the metrics computed on every      *)
(* write (behaviors.py), as the serializers and Abastecimento.save run     *)
(* them.                                                                   *)
(*                                                                         *)
(* Units.  Decimal(…, 2) values are integers counting hundredths: liters   *)
(* 1.50 is 150, prices and totals are in cents.  Odometer values are       *)
(* integers.  A nullable value is a sequence: << >> is None, <<x>> is x.   *)
(* A table is the sequence of its rows in id order (ids grow with every    *)
(* insert, so "ORDER BY id" is the order of the sequence).                 *)
(***************************************************************************)
EXTENDS Integers, Sequences, FiniteSets

\* ---------------------------------------------------------------- bounds
MaxHod == 3
MaxAbs == 2
\* refueling rows where odometer rows are also deleted
MaxAbsHod == 1
\* odometer rows where a function is called on the ledger
MaxHodFn == 2
\* cap on total_gasto_abastecimento (cents), which every save can raise
MaxGasto == 3000
\* the same cap for requests with the amounts of a full tank
MaxGastoCenario == 40000
\* refueling creates in flight at once
MaxReqs == 2
\* rows of the table veiculos
MaxVeic == 3
\* refueling creates in flight at once, among other requests
MaxReqsLedger == 1

\* the vehicles (their ids) and the odometer values a request may carry.
\* The values overlap the ids: HodometroSerializer.update looks up the
\* vehicle whose id is an odometer value
Veiculos == {1, 2}
Hodometros == {0, 1, 2}
\* total_litros / preco_combustivel a request may carry (hundredths)
Litros == {150, 250}
Precos == {557}
\* data_abastecimento a request may carry.  Timestamps count half days
Datas == {1, 2, 3, 5}
\* the fields of refueling requests with the amounts of a full tank:
\* liters 35.00 and 40.00, price 5.00 and 5.20, odometer 10000 and 10500,
\* timestamps 6.5 and 7 days after the first
CenarioLitros == {3500, 4000}
CenarioPrecos == {500, 520}
CenarioHodometros == {10000, 10500}
CenarioDatas == {1, 14, 15}
\* the users (their ids) that make requests
Usuarios == {1, 2}
\* placa a request may carry: two old-format plates that differ in case only,
\* two Mercosul plates, and a string of neither format
Placas == {"AAA1111", "aaa1111", "BBB2B22", "CCC3C33", "CCC333"}

None == << >>
Some(x) == <<x>>
Val(o) == o[1]

\* veics, hods and abs are the tables veiculos, hodometros and abastecimentos;
\* reqs are the refueling creates that have read the tables and not yet
\* written
VARIABLES veics, hods, abs, reqs, fn

vars == <<veics, hods, abs, reqs, fn>>
ledger == <<hods, abs>>
stores == <<veics, hods, abs, reqs>>

\* fn is the behaviors.py function called last on the ledger as it stands,
\* with its arguments and what it gave: a value (None included) or an
\* exception.  A request to an endpoint clears it
Return(x) == [raised |-> "", ret |-> Some(x)]
Raise(e) == [raised |-> e, ret |-> None]

NoCall == [name |-> "", args |-> << >>, out |-> [raised |-> "", ret |-> None]]

\* ------------------------------------------------------- query helpers
\* Model.objects.filter(veiculo=v): the rows whose veiculo_id is v, in id order
FilterVeiculo(rows, v) == SelectSeq(rows, LAMBDA r : r.veiculo = v)

ColHodometro(rows) == {rows[i].hodometro : i \in 1..Len(rows)}

MaxOf(S) == CHOOSE m \in S : \A x \in S : x <= m
MinOf(S) == CHOOSE m \in S : \A x \in S : m <= x

\* .order_by('-id').first(): None, or the row inserted last
LastById(rows) == IF Len(rows) = 0 THEN None ELSE Some(rows[Len(rows)])

\* .order_by('-hodometro').first(): the rows the database may return, every
\* row holding the greatest hodometro (the order among equal keys is not
\* specified by ORDER BY)
FirstByHodometroDesc(rows) ==
    {rows[i] : i \in {j \in 1..Len(rows) : \A k \in 1..Len(rows) : rows[k].hodometro <= rows[j].hodometro}}

\* Decimal.quantize(..., rounding=ROUND_DOWN) of a / b: toward zero
TruncDiv(a, b) == IF a >= 0 THEN a \div b ELSE -((-a) \div b)

\* numeric(10,2) column: a / b stored to 2 places, rounded half away from zero
RoundDiv(a, b) == IF a >= 0 THEN (2 * a + b) \div (2 * b) ELSE -((2 * (-a) + b) \div (2 * b))

RemoveAt(s, i) == SubSeq(s, 1, i - 1) \o SubSeq(s, i + 1, Len(s))

ReplaceAt(s, i, x) == [s EXCEPT ![i] = x]

\* PrimaryKeyRelatedField(queryset=Veiculo.objects.all()): the id names a row
VeiculoExiste(veiculo) == veiculo \in 1..Len(veics)

\* veiculo.usuario
Dono(veiculo) == veics[veiculo].usuario

\* an integer column with no CHECK constraint
IntegerCheck(o) == TRUE

\* PositiveIntegerField column: CHECK (col >= 0), NULL allowed
PositiveIntegerCheck(o) == o = None \/ Val(o) >= 0

\* ------------------------------------------------- behaviors.py: Hodometro
\* calcular_diferenca with order_by('-hodometro') in the place of
\* order_by('hodometro'): the delta to the greatest value
DiferencaDesdeMaior(veiculo, hodometro_atual) ==
    LET registros == FilterVeiculo(hods, veiculo)
        hodometro_inicial == IF Len(registros) = 0 THEN 0 ELSE MaxOf(ColHodometro(registros))
    IN  hodometro_atual - hodometro_inicial

\* HodometroBehavior.calcular_diferenca(veiculo, hodometro_atual): the first
\* row of the vehicle by ascending hodometro, 0 when there is none
HodometroBehavior_calcular_diferenca(veiculo, hodometro_atual) ==
    LET registros == FilterVeiculo(hods, veiculo)
        hodometro_inicial == IF Len(registros) = 0 THEN 0 ELSE MinOf(ColHodometro(registros))
    IN  hodometro_atual - hodometro_inicial

\* HodometroBehavior.obter_valor_ultimo_hodometro(veiculo)
HodometroBehavior_obter_valor_ultimo_hodometro(veiculo) ==
    LET registros == FilterVeiculo(hods, veiculo)
    IN  IF Len(registros) = 0 THEN None ELSE Some(MaxOf(ColHodometro(registros)))

\* HodometroBehavior.validar_hodometro(hodometro_atual, veiculo): "ValueError"
\* when it raises, "None" when it falls off its end (it returns nothing)
HodometroBehavior_validar_hodometro(hodometro_atual, veiculo) ==
    LET hodometro_inicial == HodometroBehavior_obter_valor_ultimo_hodometro(veiculo)
    IN  IF hodometro_inicial # None /\ Val(hodometro_inicial) # 0
           /\ hodometro_atual < Val(hodometro_inicial)
        THEN "ValueError"
        ELSE "None"

\* --------------------------------------------- behaviors.py: Abastecimento
\* AbastecimentoBehavior.obter_ultimo_abastecimento(veiculo): the rows
\* .order_by('-hodometro').first() may return ({} when it returns None)
AbastecimentoBehavior_obter_ultimo_abastecimento(veiculo) ==
    FirstByHodometroDesc(FilterVeiculo(abs, veiculo))

\* The value calcular_consumo_medio returns with a given last refueling:
\* None, or the quotient num / den (km per liter; den in liters)
ConsumoMedioCom(hodometro_diferenca, ultimo_abastecimento) ==
    IF hodometro_diferenca > 0 /\ ultimo_abastecimento.total_litros > 0
    THEN Some([num |-> hodometro_diferenca * 100, den |-> ultimo_abastecimento.total_litros])
    ELSE None

\* AbastecimentoBehavior.calcular_consumo_medio(hodometro_diferenca, veiculo):
\* the set of values it may return (one per row the lookup may return)
AbastecimentoBehavior_calcular_consumo_medio(hodometro_diferenca, veiculo) ==
    LET ultimos == AbastecimentoBehavior_obter_ultimo_abastecimento(veiculo)
    IN  IF ultimos = {}
        THEN {Some([num |-> 0, den |-> 1])}
        ELSE {ConsumoMedioCom(hodometro_diferenca, u) : u \in ultimos}

\* AbastecimentoBehavior.calcular_diferenca(ultimo_hodometro, penultimo_hodometro)
AbastecimentoBehavior_calcular_diferenca(ultimo_hodometro, penultimo_hodometro) ==
    ultimo_hodometro - penultimo_hodometro

\* Python truth of an optional Decimal: None and 0 are false
Truthy(o) == o # None /\ Val(o) # 0

\* calcular_preco_total with the default rounding of quantize in the place
\* of ROUND_DOWN
PrecoTotalArredondado(total_litros, preco_combustivel) ==
    IF Truthy(total_litros) /\ Truthy(preco_combustivel)
    THEN LET preco_total == RoundDiv(Val(total_litros) * Val(preco_combustivel), 100)
         IN  IF preco_total >= 100000 THEN 99999 ELSE preco_total
    ELSE 0

\* AbastecimentoBehavior.calcular_preco_total(total_litros, preco_combustivel),
\* in cents; the arguments are optional
AbastecimentoBehavior_calcular_preco_total(total_litros, preco_combustivel) ==
    IF Truthy(total_litros) /\ Truthy(preco_combustivel)
    THEN LET preco_total == TruncDiv(Val(total_litros) * Val(preco_combustivel), 100)
         IN  IF preco_total >= 100000 THEN 99999 ELSE preco_total
    ELSE 0

\* calcular_litros_por_dia with the default rounding of quantize in the
\* place of ROUND_DOWN
LitrosPorDiaArredondado(total_litros, dias_entre_abastecimentos) ==
    IF Truthy(dias_entre_abastecimentos) /\ Val(dias_entre_abastecimentos) > 0
    THEN Some(RoundDiv(total_litros, Val(dias_entre_abastecimentos)))
    ELSE None

\* AbastecimentoBehavior.calcular_litros_por_dia(total_litros,
\* dias_entre_abastecimentos): None or liters per day, in hundredths
AbastecimentoBehavior_calcular_litros_por_dia(total_litros, dias_entre_abastecimentos) ==
    IF Truthy(dias_entre_abastecimentos) /\ Val(dias_entre_abastecimentos) > 0
    THEN Some(TruncDiv(total_litros, Val(dias_entre_abastecimentos)))
    ELSE None

\* km_dias that takes a distance of 0 for a valid one
KmDiasDesdeZero(diferenca_km, dias_percorridos) ==
    IF diferenca_km # None /\ dias_percorridos # None
       /\ Val(diferenca_km) >= 0 /\ Val(dias_percorridos) > 0
    THEN Some(TruncDiv(Val(diferenca_km), Val(dias_percorridos)))
    ELSE None

\* AbastecimentoBehavior.km_dias(diferenca_km, dias_percorridos): None or
\* whole km per day
AbastecimentoBehavior_km_dias(diferenca_km, dias_percorridos) ==
    IF diferenca_km # None /\ dias_percorridos # None
       /\ Val(diferenca_km) > 0 /\ Val(dias_percorridos) > 0
    THEN Some(TruncDiv(Val(diferenca_km), Val(dias_percorridos)))
    ELSE None

\* calcular_total_gasto_abastecimento without filter(veiculo=veiculo): the
\* running total of whatever row was inserted last
TotalGastoSemFiltro(novo_preco_total, veiculo) ==
    LET ultimo_abastecimento == LastById(abs)
        total_anterior == IF ultimo_abastecimento # None
                          THEN Val(ultimo_abastecimento).total_gasto_abastecimento
                          ELSE 0
    IN  total_anterior + novo_preco_total

\* AbastecimentoBehavior.calcular_total_gasto_abastecimento(novo_preco_total, veiculo)
AbastecimentoBehavior_calcular_total_gasto_abastecimento(novo_preco_total, veiculo) ==
    LET ultimo_abastecimento == LastById(FilterVeiculo(abs, veiculo))
        total_anterior == IF ultimo_abastecimento # None
                          THEN Val(ultimo_abastecimento).total_gasto_abastecimento
                          ELSE 0
    IN  total_anterior + novo_preco_total

\* ------------------------------------------------ models.py: Abastecimento
\* desempenho_veiculo = DecimalField(max_digits=10, decimal_places=2, null=True)
DesempenhoColumn(consumo) ==
    IF consumo = None THEN None ELSE Some(RoundDiv(Val(consumo).num * 100, Val(consumo).den))

\* Abastecimento.save, its preco_total: calcular_preco_total, limited again
Abastecimento_save_preco_total(total_litros, preco_combustivel) ==
    LET preco_total == AbastecimentoBehavior_calcular_preco_total(Some(total_litros), Some(preco_combustivel))
    IN  IF preco_total >= 100000 THEN 99999 ELSE preco_total

\* Abastecimento.save(self): the rows it may hand to the database.  The
\* second argument of calcular_consumo_medio is self.total_litros; the
\* veiculo lookup casts it with int()
Abastecimento_save(self) ==
    LET ultimo_abastecimento == LastById(FilterVeiculo(hods, self.veiculo))
        hodometro_diferenca ==
            IF ultimo_abastecimento # None
            THEN AbastecimentoBehavior_calcular_diferenca(self.hodometro, Val(ultimo_abastecimento).hodometro)
            ELSE 0
        preco_total == Abastecimento_save_preco_total(self.total_litros, self.preco_combustivel)
    IN  { [self EXCEPT !.hodometro_diferenca = Some(hodometro_diferenca),
                       !.preco_total = preco_total,
                       !.desempenho_veiculo = DesempenhoColumn(consumo),
                       !.total_gasto_abastecimento =
                           AbastecimentoBehavior_calcular_total_gasto_abastecimento(preco_total, self.veiculo)]
          : consumo \in AbastecimentoBehavior_calcular_consumo_medio(
                            hodometro_diferenca, TruncDiv(self.total_litros, 100)) }

\* --------------------------------------- serializers.py: HodometroSerializer
\* HodometroSerializer.validate(data): "ok" or the exception raised.  A
\* field a PATCH leaves out is None
HodometroSerializer_validate(veiculo, hodometro) ==
    IF veiculo = None THEN "ValidationError"
    ELSE IF hodometro = None THEN "ValidationError"
    ELSE LET registros == FilterVeiculo(hods, Val(veiculo))
         IN  IF Len(registros) > 0 /\ Val(hodometro) < MaxOf(ColHodometro(registros))
             THEN "ValidationError"
             ELSE "ok"

\* HodometroSerializer.create(validated_data): the row handed to
\* HodometroBehavior.inicializar_hodometro
HodometroSerializer_create(usuario, veiculo, hodometro) ==
    LET ultimo_registro == FilterVeiculo(hods, veiculo)
    IN  [veiculo |-> veiculo,
         usuario |-> usuario,
         hodometro |-> hodometro,
         hodometro_diferenca |->
             IF Len(ultimo_registro) > 0
             THEN Some(HodometroBehavior_calcular_diferenca(veiculo, hodometro))
             ELSE None]

\* HodometroSerializer.update(instance, validated_data): the row handed to
\* instance.save().  calcular_diferenca is called with instance.hodometro in
\* the place of its veiculo parameter
HodometroSerializer_update(instance, hodometro) ==
    [instance EXCEPT
        !.hodometro_diferenca = Some(HodometroBehavior_calcular_diferenca(instance.hodometro, hodometro)),
        !.hodometro = hodometro]

\* POST /api/hodometros/: the status answered, or the exception raised
HodometroCreate_status(usuario, veiculo, hodometro) ==
    LET valid == HodometroSerializer_validate(Some(veiculo), Some(hodometro))
    IN  IF ~VeiculoExiste(veiculo) THEN "ValidationError"
        ELSE IF valid # "ok" THEN valid
        ELSE IF ~PositiveIntegerCheck(HodometroSerializer_create(usuario, veiculo, hodometro).hodometro_diferenca)
        THEN "IntegrityError"
        ELSE "201"

\* usuario is request.user
HodometroCreate(usuario, veiculo, hodometro) ==
    /\ IF HodometroCreate_status(usuario, veiculo, hodometro) = "201"
       THEN hods' = Append(hods, HodometroSerializer_create(usuario, veiculo, hodometro))
       ELSE UNCHANGED hods
    /\ UNCHANGED <<veics, abs, reqs>>
    /\ fn' = NoCall

\* PUT or PATCH /api/hodometros/{id}/, on the i-th row.  get_queryset shows
\* a user the rows that carry their id
HodometroUpdate_status(usuario, i, veiculo, hodometro) ==
    LET instance == hods[i]
        valid == HodometroSerializer_validate(veiculo, hodometro)
    IN  IF instance.usuario # usuario THEN "404"
        ELSE IF veiculo # None /\ ~VeiculoExiste(Val(veiculo)) THEN "ValidationError"
        ELSE IF valid # "ok" THEN valid
        ELSE IF Val(hodometro) < instance.hodometro THEN "ValidationError"
        ELSE IF ~PositiveIntegerCheck(HodometroSerializer_update(instance, Val(hodometro)).hodometro_diferenca)
        THEN "IntegrityError"
        ELSE "200"

HodometroUpdate(usuario, i, veiculo, hodometro) ==
    /\ i \in 1..Len(hods)
    /\ IF HodometroUpdate_status(usuario, i, veiculo, hodometro) = "200"
       THEN hods' = ReplaceAt(hods, i, HodometroSerializer_update(hods[i], Val(hodometro)))
       ELSE UNCHANGED hods
    /\ UNCHANGED <<veics, abs, reqs>>
    /\ fn' = NoCall

\* DELETE /api/hodometros/{id}/ (ModelViewSet.destroy, not overridden)
HodometroDestroy_status(usuario, i) ==
    IF hods[i].usuario # usuario THEN "404" ELSE "204"

HodometroDestroy(usuario, i) ==
    /\ i \in 1..Len(hods)
    /\ IF HodometroDestroy_status(usuario, i) = "204"
       THEN hods' = RemoveAt(hods, i)
       ELSE UNCHANGED hods
    /\ UNCHANGED <<veics, abs, reqs>>
    /\ fn' = NoCall

\* ----------------------------------- serializers.py: AbastecimentoSerializer
\* the hodometro of the vehicle's Hodometro row with the greatest id, else 0
UltimoValorHodometro(veiculo) ==
    LET ultimo_hodometro == IF veiculo = None THEN None
                            ELSE LastById(FilterVeiculo(hods, Val(veiculo)))
    IN  IF ultimo_hodometro # None THEN Val(ultimo_hodometro).hodometro ELSE 0

\* AbastecimentoSerializer.validate(data); None < int raises TypeError
AbastecimentoSerializer_validate(veiculo, novo_hodometro) ==
    IF novo_hodometro = None THEN "TypeError"
    ELSE IF Val(novo_hodometro) < UltimoValorHodometro(veiculo) THEN "ValidationError"
    ELSE "ok"

\* AbastecimentoSerializer.create: the instance Abastecimento.objects.create
\* builds before it calls save()
AbastecimentoSerializer_create_abastecimento(usuario, veiculo, hodometro, total_litros, preco_combustivel, data_abastecimento) ==
    [veiculo |-> veiculo,
     usuario |-> usuario,
     data_abastecimento |-> data_abastecimento,
     hodometro |-> hodometro,
     hodometro_diferenca |->
         Some(AbastecimentoBehavior_calcular_diferenca(hodometro, UltimoValorHodometro(Some(veiculo)))),
     desempenho_veiculo |-> None,
     preco_combustivel |-> preco_combustivel,
     total_litros |-> total_litros,
     preco_total |-> AbastecimentoBehavior_calcular_preco_total(Some(total_litros), Some(preco_combustivel)),
     total_gasto_abastecimento |-> 0]

\* the Hodometro row of a refueling create that leaves hodometro_diferenca
\* at its default
\* the odometer row of a refueling create, entered for the owner of the vehicle
CreateHodometroDoDono(usuario, veiculo, hodometro) ==
    LET ultimo_registro == FilterVeiculo(hods, veiculo)
    IN  [veiculo |-> veiculo,
         usuario |-> Dono(veiculo),
         hodometro |-> hodometro,
         hodometro_diferenca |->
            IF Len(ultimo_registro) > 0
            THEN Some(HodometroBehavior_calcular_diferenca(veiculo, hodometro))
            ELSE None]

CreateHodometroSemDiferenca(usuario, veiculo, hodometro) ==
    [veiculo |-> veiculo,
     usuario |-> usuario,
     hodometro |-> hodometro,
     hodometro_diferenca |-> None]

\* AbastecimentoSerializer.create: the Hodometro row it adds
AbastecimentoSerializer_create_hodometro(usuario, veiculo, hodometro) ==
    LET ultimo_registro == FilterVeiculo(hods, veiculo)
    IN  [veiculo |-> veiculo,
         usuario |-> usuario,
         hodometro |-> hodometro,
         hodometro_diferenca |->
             IF Len(ultimo_registro) > 0
             THEN Some(HodometroBehavior_calcular_diferenca(veiculo, hodometro))
             ELSE None]

\* AbastecimentoSerializer.update below its hodometro branch: the instance
\* handed to instance.save()
AbastecimentoSerializer_update_instance(instance, total_litros, preco_combustivel) ==
    [instance EXCEPT !.total_litros = total_litros,
                     !.preco_combustivel = preco_combustivel,
                     !.preco_total = AbastecimentoBehavior_calcular_preco_total(Some(total_litros), Some(preco_combustivel))]

\* UniqueConstraint(fields=['veiculo', 'data_abastecimento']): no row of the
\* vehicle holds the timestamp yet
AbastecimentoPorVeiculoEData(veiculo, data_abastecimento) ==
    \A i \in 1..Len(abs) :
        ~(abs[i].veiculo = veiculo /\ abs[i].data_abastecimento = data_abastecimento)

\* POST /api/abastecimentos/.  The two inserts are separate statements (no
\* transaction.atomic, no ATOMIC_REQUESTS): "partial" is the refueling row
\* inserted and the odometer row refused
AbastecimentoCreate_status(usuario, veiculo, hodometro, total_litros, preco_combustivel, data_abastecimento) ==
    LET valid == AbastecimentoSerializer_validate(Some(veiculo), Some(hodometro))
        salvos == Abastecimento_save(
            AbastecimentoSerializer_create_abastecimento(usuario, veiculo, hodometro, total_litros,
                                                         preco_combustivel, data_abastecimento))
    IN  IF ~VeiculoExiste(veiculo) THEN "ValidationError"
        ELSE IF valid # "ok" THEN valid
        ELSE IF ~AbastecimentoPorVeiculoEData(veiculo, data_abastecimento) THEN "IntegrityError"
        ELSE IF \E a \in salvos : ~PositiveIntegerCheck(a.hodometro_diferenca) THEN "IntegrityError"
        ELSE IF ~PositiveIntegerCheck(
                    AbastecimentoSerializer_create_hodometro(usuario, veiculo, hodometro).hodometro_diferenca)
        THEN "partial"
        ELSE "201"

\* usuario is request.user; max_gasto caps the cumulative spend the table
\* may hold
AbastecimentoCreateAte(max_gasto, usuario, veiculo, hodometro, total_litros, preco_combustivel, data_abastecimento) ==
    /\ LET status == AbastecimentoCreate_status(usuario, veiculo, hodometro, total_litros, preco_combustivel,
                                                 data_abastecimento)
       IN  IF status \in {"201", "partial"}
           THEN \E abastecimento \in Abastecimento_save(
                    AbastecimentoSerializer_create_abastecimento(usuario, veiculo, hodometro, total_litros,
                                                                 preco_combustivel, data_abastecimento)) :
                /\ abastecimento.total_gasto_abastecimento <= max_gasto
                /\ abs' = Append(abs, abastecimento)
                /\ IF status = "201"
                   THEN hods' = Append(hods, AbastecimentoSerializer_create_hodometro(usuario, veiculo, hodometro))
                   ELSE UNCHANGED hods
           ELSE UNCHANGED ledger
    /\ UNCHANGED <<veics, reqs>>
    /\ fn' = NoCall

AbastecimentoCreate(usuario, veiculo, hodometro, total_litros, preco_combustivel, data_abastecimento) ==
    AbastecimentoCreateAte(MaxGasto, usuario, veiculo, hodometro, total_litros, preco_combustivel, data_abastecimento)

\* PUT or PATCH /api/abastecimentos/{id}/, on the i-th row.  validar_hodometro
\* is called with (ultimo_valor_hodometro, novo_hodometro) and returns nothing,
\* so "not validar_hodometro(...)" holds whenever it does not raise.
\* get_queryset shows a user the rows of their vehicles
AbastecimentoUpdate_status(usuario, i, data_veiculo, data_hodometro, total_litros, preco_combustivel) ==
    LET instance == abs[i]
        valid == AbastecimentoSerializer_validate(data_veiculo, data_hodometro)
        veiculo == IF data_veiculo = None THEN Some(instance.veiculo) ELSE data_veiculo
        ultimo_valor_hodometro == UltimoValorHodometro(veiculo)
        novo_hodometro == Val(data_hodometro)
        salvos == Abastecimento_save(AbastecimentoSerializer_update_instance(instance, total_litros, preco_combustivel))
    IN  IF Dono(instance.veiculo) # usuario THEN "404"
        ELSE IF data_veiculo # None /\ ~VeiculoExiste(Val(data_veiculo)) THEN "ValidationError"
        ELSE IF valid # "ok" THEN valid
        ELSE IF novo_hodometro # instance.hodometro
        THEN IF HodometroBehavior_validar_hodometro(ultimo_valor_hodometro, novo_hodometro) = "ValueError"
             THEN "ValueError"
             ELSE "ValidationError"
        ELSE IF \E a \in salvos : ~PositiveIntegerCheck(a.hodometro_diferenca) THEN "IntegrityError"
        ELSE "200"

AbastecimentoUpdate(usuario, i, data_veiculo, data_hodometro, total_litros, preco_combustivel) ==
    /\ i \in 1..Len(abs)
    /\ IF AbastecimentoUpdate_status(usuario, i, data_veiculo, data_hodometro, total_litros,
                                     preco_combustivel) = "200"
       THEN \E salvo \in Abastecimento_save(
                AbastecimentoSerializer_update_instance(abs[i], total_litros, preco_combustivel)) :
            /\ salvo.total_gasto_abastecimento <= MaxGasto
            /\ abs' = ReplaceAt(abs, i, salvo)
       ELSE UNCHANGED abs
    /\ UNCHANGED <<veics, hods, reqs>>
    /\ fn' = NoCall

\* timedelta.days of data_atual - data_anterior: whole days, rounded down
Days(data_atual, data_anterior) == (data_atual - data_anterior) \div 2

\* AbastecimentoSerializer.get_dias_entre_abastecimentos(obj), obj the i-th
\* row: against the row with the latest timestamp among the vehicle's rows
\* of smaller id
AbastecimentoSerializer_get_dias_entre_abastecimentos(i) ==
    LET anteriores == {j \in 1..(i - 1) : abs[j].veiculo = abs[i].veiculo}
    IN  IF anteriores = {} THEN None
        ELSE LET ultimo_abastecimento ==
                     abs[CHOOSE j \in anteriores :
                            \A k \in anteriores : abs[k].data_abastecimento <= abs[j].data_abastecimento]
             IN  Some(Days(abs[i].data_abastecimento, ultimo_abastecimento.data_abastecimento))

\* AbastecimentoSerializer.get_litros_por_dia(obj), obj the i-th row
AbastecimentoSerializer_get_litros_por_dia(i) ==
    AbastecimentoBehavior_calcular_litros_por_dia(
        abs[i].total_litros, AbastecimentoSerializer_get_dias_entre_abastecimentos(i))

\* AbastecimentoSerializer.get_km_dias(obj), obj the i-th row
AbastecimentoSerializer_get_km_dias(i) ==
    AbastecimentoBehavior_km_dias(abs[i].hodometro_diferenca, AbastecimentoSerializer_get_dias_entre_abastecimentos(i))

\* DELETE /api/abastecimentos/{id}/ (ModelViewSet.destroy, not overridden)
AbastecimentoDestroy_status(usuario, i) ==
    IF Dono(abs[i].veiculo) # usuario THEN "404" ELSE "204"

AbastecimentoDestroy(usuario, i) ==
    /\ i \in 1..Len(abs)
    /\ IF AbastecimentoDestroy_status(usuario, i) = "204"
       THEN abs' = RemoveAt(abs, i)
       ELSE UNCHANGED abs
    /\ UNCHANGED <<veics, hods, reqs>>
    /\ fn' = NoCall

\* ------------------------------------------------------- specifications
\* two vehicles registered, one by each user, and empty ledgers
Init ==
    /\ veics = << [usuario |-> 1, placa |-> "AAA1111", is_deleted |-> FALSE],
                  [usuario |-> 2, placa |-> "BBB2B22", is_deleted |-> FALSE] >>
    /\ hods = << >>
    /\ abs = << >>
    /\ reqs = {}
    /\ fn = NoCall

Opt(S) == {None} \cup {Some(x) : x \in S}

\* The requests below are made by the user who owns the vehicle (creates)
\* or whom get_queryset shows the row (updates, deletes).
\* at most n odometer rows
PostHodometroAte(n) == Len(hods) < n /\ \E v \in Veiculos, h \in Hodometros : HodometroCreate(Dono(v), v, h)
PostHodometro == PostHodometroAte(MaxHod)
PutHodometro ==
    \E i \in 1..Len(hods), v \in Opt(Veiculos), h \in Opt(Hodometros) : HodometroUpdate(hods[i].usuario, i, v, h)
DeleteHodometro == \E i \in 1..Len(hods) : HodometroDestroy(hods[i].usuario, i)
\* timezone.now(), the default of data_abastecimento: later than every
\* timestamp stored so far
Agora ==
    IF Len(abs) = 0 THEN 1
    ELSE 1 + MaxOf({abs[i].data_abastecimento : i \in 1..Len(abs)})

\* at most n refueling rows; the request leaves data_abastecimento out
PostAbastecimentoAte(n) ==
    /\ Len(abs) < n
    /\ Len(hods) < MaxHod
    /\ \E v \in Veiculos, h \in Hodometros, l \in Litros, p \in Precos :
        AbastecimentoCreate(Dono(v), v, h, l, p, Agora)
\* the request carries its data_abastecimento
PostAbastecimentoDatado ==
    /\ Len(abs) < MaxAbs
    /\ Len(hods) < MaxHod
    /\ \E v \in Veiculos, h \in Hodometros, l \in Litros, p \in Precos, d \in Datas :
        AbastecimentoCreate(Dono(v), v, h, l, p, d)
PostAbastecimento == PostAbastecimentoAte(MaxAbs)
PutAbastecimento ==
    \E i \in 1..Len(abs), v \in Opt(Veiculos), h \in Opt(Hodometros), l \in Litros, p \in Precos :
        AbastecimentoUpdate(Dono(abs[i].veiculo), i, v, h, l, p)
DeleteAbastecimento == \E i \in 1..Len(abs) : AbastecimentoDestroy(Dono(abs[i].veiculo), i)

\* every endpoint of the two ledgers (HodometroViewSet, AbastecimentoViewSet)
Next ==
    \/ PostHodometro
    \/ PutHodometro
    \/ DeleteHodometro
    \/ PostAbastecimentoAte(MaxAbsHod)
    \/ PutAbastecimento
    \/ DeleteAbastecimento

Spec == Init /\ [][Next]_vars

\* creates only
NextCreate == PostHodometro \/ PostAbastecimento
SpecCreate == Init /\ [][NextCreate]_vars

\* every request that writes the odometer ledger
NextHodometro == PostHodometro \/ PutHodometro \/ DeleteHodometro \/ PostAbastecimentoAte(MaxAbsHod)
SpecHodometro == Init /\ [][NextHodometro]_vars

\* odometer creates and updates, refueling creates
NextOdometerWrites == PostHodometro \/ PutHodometro \/ PostAbastecimento
SpecOdometerWrites == Init /\ [][NextOdometerWrites]_vars

\* refueling creates and updates
NextRefuelWrites == PostAbastecimento \/ PutAbastecimento
SpecRefuelWrites == Init /\ [][NextRefuelWrites]_vars

\* refueling creates with any timestamp, in any order
NextDatado == PostAbastecimentoDatado \/ PostHodometro
SpecDatado == Init /\ [][NextDatado]_vars

\* ------------------------------------- refueling creates served concurrently
\* No statement of AbastecimentoSerializer.create or Abastecimento.save runs
\* in a transaction or under a lock (no transaction.atomic, no
\* select_for_update, no ATOMIC_REQUESTS): other requests run between its
\* queries and its inserts.  A request in flight is a record of reqs; its pc
\* names the part of the handler it runs next:
\*   "create"     validate has passed; create's queries come next
\*   "save"       create's queries are done; Abastecimento.save's come next
\*   "insert"     save has computed the row; super().save() comes next
\*   "hodometro"  the refueling row is stored; Hodometro.objects.create is next

\* timezone.now() of a request that arrives: later than every timestamp taken
AgoraEmCurso ==
    LET tomadas == {abs[i].data_abastecimento : i \in 1..Len(abs)}
                       \cup {r.data_abastecimento : r \in reqs}
    IN  IF tomadas = {} THEN 1 ELSE 1 + MaxOf(tomadas)

\* is_valid(): AbastecimentoSerializer.validate on the tables as they are now
AbastecimentoCreate_is_valid(usuario, veiculo, hodometro, total_litros, preco_combustivel) ==
    /\ IF VeiculoExiste(veiculo) /\ AbastecimentoSerializer_validate(Some(veiculo), Some(hodometro)) = "ok"
       THEN \E id \in (1..MaxReqs) \ {r.id : r \in reqs} :
                reqs' = reqs \cup {[id |-> id,
                                    pc |-> "create",
                                    usuario |-> usuario,
                                    veiculo |-> veiculo,
                                    hodometro |-> hodometro,
                                    total_litros |-> total_litros,
                                    preco_combustivel |-> preco_combustivel,
                                    data_abastecimento |-> AgoraEmCurso,
                                    abastecimento |-> None,
                                    novo_hodometro |-> None]}
       ELSE UNCHANGED reqs
    /\ UNCHANGED <<veics, hods, abs>>
    /\ fn' = NoCall

\* AbastecimentoSerializer.create up to Abastecimento.objects.create: the
\* instance it builds and the odometer row it has computed
AbastecimentoCreate_reads(r) ==
    /\ r.pc = "create"
    /\ reqs' = (reqs \ {r}) \cup
            {[r EXCEPT !.pc = "save",
                       !.abastecimento = Some(AbastecimentoSerializer_create_abastecimento(
                            r.usuario, r.veiculo, r.hodometro, r.total_litros, r.preco_combustivel,
                            r.data_abastecimento)),
                       !.novo_hodometro = Some(AbastecimentoSerializer_create_hodometro(
                            r.usuario, r.veiculo, r.hodometro))]}
    /\ UNCHANGED <<veics, hods, abs>>
    /\ fn' = NoCall

\* Abastecimento.save up to super().save(): the derived fields, from the
\* tables as they are now
AbastecimentoSave_reads(r) ==
    /\ r.pc = "save"
    /\ \E abastecimento \in Abastecimento_save(Val(r.abastecimento)) :
        /\ abastecimento.total_gasto_abastecimento <= MaxGasto
        /\ reqs' = (reqs \ {r}) \cup {[r EXCEPT !.pc = "insert", !.abastecimento = Some(abastecimento)]}
    /\ UNCHANGED <<veics, hods, abs>>
    /\ fn' = NoCall

\* the row super().save() of a request recomputed from the table at the
\* time of the insert
SaveRowRecalculado(r) ==
    [Val(r.abastecimento) EXCEPT !.total_gasto_abastecimento =
        AbastecimentoBehavior_calcular_total_gasto_abastecimento(Val(r.abastecimento).preco_total, r.veiculo)]

\* the row super().save() inserts: the instance as save computed it
AbastecimentoSave_row(r) == Val(r.abastecimento)

\* super().save(): the insert, under the constraints of the table.  An
\* IntegrityError ends the request
AbastecimentoSave_insert(r) ==
    /\ r.pc = "insert"
    /\ IF /\ AbastecimentoPorVeiculoEData(r.veiculo, r.data_abastecimento)
          /\ PositiveIntegerCheck(AbastecimentoSave_row(r).hodometro_diferenca)
       THEN /\ abs' = Append(abs, AbastecimentoSave_row(r))
            /\ reqs' = (reqs \ {r}) \cup {[r EXCEPT !.pc = "hodometro"]}
       ELSE /\ reqs' = reqs \ {r}
            /\ UNCHANGED abs
    /\ UNCHANGED <<veics, hods>>
    /\ fn' = NoCall

\* the response that Hodometro.objects.create of a request leads to
AbastecimentoCreate_insert_hodometro_status(r) ==
    IF PositiveIntegerCheck(Val(r.novo_hodometro).hodometro_diferenca) THEN "201" ELSE "IntegrityError"

\* Hodometro.objects.create, the last statement of create.  The refueling
\* row stays when this insert raises
AbastecimentoCreate_insert_hodometro(r) ==
    /\ r.pc = "hodometro"
    /\ IF AbastecimentoCreate_insert_hodometro_status(r) = "201"
       THEN hods' = Append(hods, Val(r.novo_hodometro))
       ELSE UNCHANGED hods
    /\ reqs' = reqs \ {r}
    /\ UNCHANGED <<veics, abs>>
    /\ fn' = NoCall

\* a refueling create arrives, while fewer than n are in flight and the
\* tables have room for its rows (at most m odometer rows)
BeginPostAbastecimentoAte(n, m) ==
    /\ Cardinality(reqs) < n
    /\ Len(abs) + Cardinality(reqs) < MaxAbs
    /\ Len(hods) + Cardinality(reqs) < m
    /\ \E v \in Veiculos, h \in Hodometros, l \in Litros, p \in Precos :
        AbastecimentoCreate_is_valid(Dono(v), v, h, l, p)
BeginPostAbastecimento == BeginPostAbastecimentoAte(MaxReqs, MaxHod)
BeginPostAbastecimentoLedger == BeginPostAbastecimentoAte(MaxReqsLedger, MaxHodFn)
StepCreateReads == \E r \in reqs : AbastecimentoCreate_reads(r)
StepSaveReads == \E r \in reqs : AbastecimentoSave_reads(r)
StepSaveInsert == \E r \in reqs : AbastecimentoSave_insert(r)
StepInsertHodometro == \E r \in reqs : AbastecimentoCreate_insert_hodometro(r)
\* an odometer create, served between two statements of the creates in flight
PostHodometroEmCurso ==
    /\ Len(hods) + Cardinality(reqs) < MaxHodFn
    /\ \E v \in Veiculos, h \in Hodometros : HodometroCreate(Dono(v), v, h)

\* refueling creates, interleaved
NextRace == BeginPostAbastecimento \/ StepCreateReads \/ StepSaveReads \/ StepSaveInsert \/ StepInsertHodometro
SpecRace == Init /\ [][NextRace]_vars

\* refueling creates interleaved with odometer creates and deletes
NextRaceLedger ==
    \/ BeginPostAbastecimentoLedger
    \/ StepCreateReads
    \/ StepSaveReads
    \/ StepSaveInsert
    \/ StepInsertHodometro
    \/ PostHodometroEmCurso
    \/ DeleteHodometro
SpecRaceLedger == Init /\ [][NextRaceLedger]_vars

\* ------------------------------------------- VeiculoSerializer, VeiculoViewSet
\* value.upper()
str_upper(value) == IF value = "aaa1111" THEN "AAA1111" ELSE value

\* VeiculoSerializer.validate_placa(value): ABC1234 or ABC1D23, in any case
VeiculoSerializer_validate_placa(value) ==
    IF value \in {"AAA1111", "aaa1111", "BBB2B22", "CCC3C33"} THEN Some(str_upper(value)) ELSE None

\* the rows a lookup by placa finds, the rows of excluir left out
PorPlaca(placa, excluir) == {i \in 1..Len(veics) : i \notin excluir /\ veics[i].placa = placa}

\* VeiculoSerializer.validate(data): instance is None on create, Some(id) on
\* update; placa is None when a PATCH leaves it out
VeiculoSerializer_validate(instance, placa) ==
    LET excluir == IF instance = None THEN {} ELSE {Val(instance)}
    IN  IF placa # None /\ \E i \in PorPlaca(Val(placa), excluir) : ~veics[i].is_deleted
        THEN "ValidationError"
        ELSE "ok"

\* VeiculoSerializer.create with every plate admitted
VeiculoCreateSemUnicidade(usuario, placa) ==
    IF VeiculoSerializer_validate_placa(placa) = None THEN "ValidationError" ELSE "201"

\* POST /api/veiculos/.  placa is unique=True: the serializer field carries a
\* UniqueValidator over every row, run on the value as sent, and the column
\* carries a unique index
VeiculoCreate_status(usuario, placa) ==
    LET value == VeiculoSerializer_validate_placa(placa)
    IN  IF PorPlaca(placa, {}) # {} THEN "ValidationError"
        ELSE IF value = None THEN "ValidationError"
        ELSE IF VeiculoSerializer_validate(None, value) # "ok" THEN "ValidationError"
        ELSE IF PorPlaca(Val(value), {}) # {} THEN "IntegrityError"
        ELSE "201"

\* usuario is request.user; the usuario of the payload is replaced by it
VeiculoCreate(usuario, placa) ==
    /\ IF VeiculoCreate_status(usuario, placa) = "201"
       THEN veics' = Append(veics, [usuario |-> usuario,
                                    placa |-> Val(VeiculoSerializer_validate_placa(placa)),
                                    is_deleted |-> FALSE])
       ELSE UNCHANGED veics
    /\ UNCHANGED <<hods, abs, reqs>>
    /\ fn' = NoCall

\* get_object(): the viewset's queryset is Veiculo.objects.filter(is_deleted=False),
\* with no filter on the user
VeiculoViewSet_get_object(i) == IF veics[i].is_deleted THEN None ELSE Some(veics[i])

\* PUT or PATCH /api/veiculos/{id}/: novo_usuario and placa are the fields of
\* the payload, None when a PATCH leaves one out
VeiculoUpdate_status(usuario, i, novo_usuario, placa) ==
    LET value == IF placa = None THEN None ELSE VeiculoSerializer_validate_placa(Val(placa))
    IN  IF VeiculoViewSet_get_object(i) = None THEN "404"
        ELSE IF placa # None /\ PorPlaca(Val(placa), {i}) # {} THEN "ValidationError"
        ELSE IF placa # None /\ value = None THEN "ValidationError"
        ELSE IF VeiculoSerializer_validate(Some(i), value) # "ok" THEN "ValidationError"
        ELSE IF value # None /\ PorPlaca(Val(value), {i}) # {} THEN "IntegrityError"
        ELSE "200"

VeiculoUpdate(usuario, i, novo_usuario, placa) ==
    /\ i \in 1..Len(veics)
    /\ IF VeiculoUpdate_status(usuario, i, novo_usuario, placa) = "200"
       THEN veics' = ReplaceAt(veics, i,
                [veics[i] EXCEPT !.usuario = IF novo_usuario = None THEN @ ELSE Val(novo_usuario),
                                 !.placa = IF placa = None THEN @
                                           ELSE Val(VeiculoSerializer_validate_placa(Val(placa)))])
       ELSE UNCHANGED veics
    /\ UNCHANGED <<hods, abs, reqs>>
    /\ fn' = NoCall

\* DELETE /api/veiculos/{id}/ (VeiculoViewSet.destroy)
VeiculoDestroy_status(usuario, i) ==
    LET veiculo == VeiculoViewSet_get_object(i)
    IN  IF veiculo = None THEN "404"
        ELSE IF Val(veiculo).is_deleted THEN "400"
        ELSE "204"

VeiculoDestroy(usuario, i) ==
    /\ i \in 1..Len(veics)
    /\ IF VeiculoDestroy_status(usuario, i) = "204"
       THEN veics' = ReplaceAt(veics, i, [veics[i] EXCEPT !.is_deleted = TRUE])
       ELSE UNCHANGED veics
    /\ UNCHANGED <<hods, abs, reqs>>
    /\ fn' = NoCall

\* POST /api/veiculos/{id}/activate/ (VeiculoViewSet.activate)
VeiculoActivate_status(usuario, i) ==
    IF VeiculoViewSet_get_object(i) = None THEN "404" ELSE "200"

VeiculoActivate(usuario, i) ==
    /\ i \in 1..Len(veics)
    /\ IF VeiculoActivate_status(usuario, i) = "200"
       THEN veics' = ReplaceAt(veics, i, [veics[i] EXCEPT !.is_deleted = FALSE])
       ELSE UNCHANGED veics
    /\ UNCHANGED <<hods, abs, reqs>>
    /\ fn' = NoCall

\* every endpoint of the vehicle registry, by any authenticated user
PostVeiculo == Len(veics) < MaxVeic /\ \E u \in Usuarios, p \in Placas : VeiculoCreate(u, p)
PutVeiculo ==
    \E u \in Usuarios, i \in 1..Len(veics), n \in Opt(Usuarios), p \in Opt(Placas) : VeiculoUpdate(u, i, n, p)
DeleteVeiculo == \E u \in Usuarios, i \in 1..Len(veics) : VeiculoDestroy(u, i)
ActivateVeiculo == \E u \in Usuarios, i \in 1..Len(veics) : VeiculoActivate(u, i)
NextVeiculo == PostVeiculo \/ PutVeiculo \/ DeleteVeiculo \/ ActivateVeiculo
SpecVeiculo == Init /\ [][NextVeiculo]_vars

\* refueling creates with the amounts of a full tank, on empty ledgers
PostAbastecimentoCenario ==
    /\ Len(abs) < MaxAbs
    /\ \E v \in Veiculos, h \in CenarioHodometros, l \in CenarioLitros, p \in CenarioPrecos, d \in CenarioDatas :
        AbastecimentoCreateAte(MaxGastoCenario, Dono(v), v, h, l, p, d)
NextCenario == PostAbastecimentoCenario
SpecCenario == Init /\ [][NextCenario]_vars

\* odometer creates and updates
NextHodometroWrites == PostHodometroAte(MaxHodFn) \/ PutHodometro
SpecHodometroWrites == Init /\ [][NextHodometroWrites]_vars

\* creates and updates of both ledgers
NextWrites == PostHodometroAte(MaxHodFn) \/ PutHodometro \/ PostAbastecimentoAte(MaxAbsHod) \/ PutAbastecimento
SpecWrites == Init /\ [][NextWrites]_vars

\* creates by any authenticated user, for any vehicle
PostHodometroDe ==
    Len(hods) < MaxHod /\ \E u \in Usuarios, v \in Veiculos, h \in Hodometros : HodometroCreate(u, v, h)
PostAbastecimentoDe ==
    /\ Len(abs) < MaxAbs
    /\ Len(hods) < MaxHod
    /\ \E u \in Usuarios, v \in Veiculos, h \in Hodometros, l \in Litros, p \in Precos :
        AbastecimentoCreate(u, v, h, l, p, Agora)
NextAnyUser == PostHodometroDe \/ PostAbastecimentoDe
SpecAnyUser == Init /\ [][NextAnyUser]_vars

\* ------------------------------------------- the metrics as pure functions
FnLitros == {-150, 0, 100, 150, 1000, 20000}
FnPrecos == {0, 550, 557, 600, 100000}
FnHodometros == {0, 1, 2, 100, 200, 10000, 10500}

Apply_calcular_preco_total ==
    /\ \E l \in Opt(FnLitros), p \in Opt(FnPrecos) :
        fn' = [name |-> "calcular_preco_total", args |-> <<l, p>>,
               out |-> Return(AbastecimentoBehavior_calcular_preco_total(l, p))]
    /\ UNCHANGED stores

Apply_save_preco_total ==
    /\ \E l \in FnLitros, p \in FnPrecos :
        fn' = [name |-> "save.preco_total", args |-> <<Some(l), Some(p)>>,
               out |-> Return(Abastecimento_save_preco_total(l, p))]
    /\ UNCHANGED stores

Apply_calcular_diferenca ==
    /\ \E ultimo \in FnHodometros, penultimo \in FnHodometros :
        fn' = [name |-> "AbastecimentoBehavior.calcular_diferenca", args |-> <<Some(ultimo), Some(penultimo)>>,
               out |-> Return(AbastecimentoBehavior_calcular_diferenca(ultimo, penultimo))]
    /\ UNCHANGED stores

FnDias == {-1, 0, 1, 3, 7}
FnKm == {-5, 0, 2, 7, 100}

Apply_calcular_litros_por_dia ==
    /\ \E l \in FnLitros, d \in Opt(FnDias) :
        fn' = [name |-> "calcular_litros_por_dia", args |-> <<Some(l), d>>,
               out |-> Return(AbastecimentoBehavior_calcular_litros_por_dia(l, d))]
    /\ UNCHANGED stores

Apply_km_dias ==
    /\ \E km \in Opt(FnKm), d \in Opt(FnDias) :
        fn' = [name |-> "km_dias", args |-> <<km, d>>,
               out |-> Return(AbastecimentoBehavior_km_dias(km, d))]
    /\ UNCHANGED stores

NextFn ==
    \/ Apply_calcular_preco_total
    \/ Apply_save_preco_total
    \/ Apply_calcular_diferenca
    \/ Apply_calcular_litros_por_dia
    \/ Apply_km_dias

SpecFn == Init /\ [][NextFn]_vars

\* HodometroBehavior.calcular_diferenca called on the odometer ledger as the
\* odometer endpoints leave it.  HodometroSerializer.update passes an
\* odometer value where the vehicle goes, so the first argument ranges over
\* both
Apply_Hodometro_calcular_diferenca ==
    /\ \E veiculo \in Veiculos \cup Hodometros, hodometro_atual \in Hodometros :
        fn' = [name |-> "HodometroBehavior.calcular_diferenca",
               args |-> <<Some(veiculo), Some(hodometro_atual)>>,
               out |-> Return(HodometroBehavior_calcular_diferenca(veiculo, hodometro_atual))]
    /\ UNCHANGED stores

NextSinceFirst ==
    \/ PostHodometroAte(MaxHodFn)
    \/ PutHodometro
    \/ DeleteHodometro
    \/ Apply_Hodometro_calcular_diferenca

SpecSinceFirst == Init /\ [][NextSinceFirst]_vars

\* ------------------------------------------------------------- properties
\* the step inserted an odometer row / a refueling row (ids only grow, so
\* the new row is the last one)
HodometroInserted == Len(hods') = Len(hods) + 1 /\ SubSeq(hods', 1, Len(hods)) = hods
AbastecimentoInserted == Len(abs') = Len(abs) + 1 /\ SubSeq(abs', 1, Len(abs)) = abs
NovoHodometro == hods'[Len(hods')]
NovoAbastecimento == abs'[Len(abs')]

\* the indices of the vehicle's rows
RowsOf(rows, v) == {i \in 1..Len(rows) : rows[i].veiculo = v}

\* the sum of preco_total over the rows with an index in S
RECURSIVE SumPrecoTotal(_, _)
SumPrecoTotal(rows, S) ==
    IF S = {} THEN 0
    ELSE LET i == CHOOSE x \in S : TRUE
         IN  rows[i].preco_total + SumPrecoTotal(rows, S \ {i})

\* C1: every odometer row that is inserted holds a value >= the value of
\* every row the vehicle already has.
C1_OdometerMonotonic ==
    [][HodometroInserted =>
        \A i \in RowsOf(hods, NovoHodometro.veiculo) : hods[i].hodometro <= NovoHodometro.hodometro]_vars

\* C2: every refueling row's total_gasto_abastecimento is the sum of
\* preco_total over the vehicle's rows with an id up to its own.
C2_RunningSum ==
    \A i \in 1..Len(abs) :
        abs[i].total_gasto_abastecimento
            = SumPrecoTotal(abs, {j \in RowsOf(abs, abs[i].veiculo) : j <= i})

\* C3: a created refueling row holds the total_gasto_abastecimento of the
\* vehicle's row with the greatest id plus its own preco_total (its own
\* preco_total alone for a first row), so that rows created one after
\* another hold p1, p1+p2, ..., p1+...+pn.
C3_Step ==
    AbastecimentoInserted =>
        LET anteriores == RowsOf(abs, NovoAbastecimento.veiculo)
        IN  NovoAbastecimento.total_gasto_abastecimento
                = NovoAbastecimento.preco_total
                  + (IF anteriores = {} THEN 0
                     ELSE abs[CHOOSE j \in anteriores : \A k \in anteriores : k <= j].total_gasto_abastecimento)
C3_Sums ==
    \A i \in 1..Len(abs) :
        abs[i].total_gasto_abastecimento
            = SumPrecoTotal(abs, {j \in 1..i : abs[j].veiculo = abs[i].veiculo})
IsTruncated(x, r) ==
    IF x >= 0 THEN r * 100 <= x /\ x < r * 100 + 100
    ELSE x <= r * 100 /\ r * 100 - 100 < x

\* C4: calcular_preco_total gives liters x price cut toward zero to two
\* places, 999.99 when that is 1000.00 or more, 0.00 when an input is
\* absent; (10, 5.50) gives 55.00, (200, 6.00) gives 999.99; the price
\* save() stores is never above 999.99.
C4_PrecoTotal ==
    /\ fn.name \in {"calcular_preco_total", "save.preco_total"} =>
        LET l == fn.args[1]
            p == fn.args[2]
            r == Val(fn.out.ret)
        IN  /\ fn.out.raised = ""
            /\ r <= 99999
            /\ (l = None \/ p = None) => r = 0
            /\ (l # None /\ p # None) =>
                   IF Val(l) * Val(p) >= 10000000 THEN r = 99999
                   ELSE IsTruncated(Val(l) * Val(p), r)
            /\ (l = Some(1000) /\ p = Some(550)) => r = 5500
            /\ (l = Some(20000) /\ p = Some(600)) => r = 99999

C4_Witness ==
    /\ fn.name = "calcular_preco_total"
    /\ fn.args = <<Some(20000), Some(600)>>
    /\ fn.out = Return(99999)

\* C5: calcular_diferenca gives current - previous, and raises a
\* validation error when current < previous.
C5_DiferencaRaises ==
    fn.name = "AbastecimentoBehavior.calcular_diferenca" =>
        LET atual == Val(fn.args[1])
            anterior == Val(fn.args[2])
        IN  IF atual < anterior
            THEN fn.out.raised = "ValidationError"
            ELSE fn.out = Return(atual - anterior)

\* C6: the desempenho_veiculo save() stores on a created row is delta /
\* liters of the vehicle's last refueling when the delta is positive and
\* those liters are positive, and None in every other case.
C6_ConsumoMedio ==
    [][AbastecimentoInserted =>
        LET novo == NovoAbastecimento
            ultimos == FirstByHodometroDesc(FilterVeiculo(abs, novo.veiculo))
        IN  IF Val(novo.hodometro_diferenca) > 0 /\ ultimos # {}
            THEN \E u \in ultimos :
                    IF u.total_litros > 0
                    THEN novo.desempenho_veiculo
                            = Some(RoundDiv(Val(novo.hodometro_diferenca) * 10000, u.total_litros))
                    ELSE novo.desempenho_veiculo = None
            ELSE novo.desempenho_veiculo = None]_vars

\* the smallest hodometro of vehicle v's rows is m
IsSmallest(v, m) ==
    /\ \E i \in RowsOf(hods, v) : hods[i].hodometro = m
    /\ \A i \in RowsOf(hods, v) : m <= hods[i].hodometro

\* C7: HodometroBehavior.calcular_diferenca(vehicle, reading) gives the
\* reading minus the smallest hodometro of the vehicle's rows, and the
\* reading itself when the vehicle has no row.
C7_SinceFirst ==
    fn.name = "HodometroBehavior.calcular_diferenca" =>
        LET v == Val(fn.args[1])
            atual == Val(fn.args[2])
        IN  /\ fn.out.raised = ""
            /\ IF RowsOf(hods, v) = {}
               THEN fn.out.ret = Some(atual)
               ELSE \E m \in Hodometros : IsSmallest(v, m) /\ fn.out.ret = Some(atual - m)

\* the call for a vehicle whose smallest value is in its later row, not in
\* its first, with a reading above both
C7_Witness ==
    /\ fn.name = "HodometroBehavior.calcular_diferenca"
    /\ \E i, j \in RowsOf(hods, Val(fn.args[1])) :
        /\ i < j
        /\ hods[j].hodometro < hods[i].hodometro
        /\ Val(fn.args[2]) > hods[i].hodometro
        /\ fn.out = Return(Val(fn.args[2]) - hods[j].hodometro)

\* C8: an odometer row created for a vehicle that has rows holds the delta
\* to the vehicle's immediately prior row.
C8_DeltaFromPrior ==
    [][(HodometroInserted /\ RowsOf(hods, NovoHodometro.veiculo) # {}) =>
        LET anteriores == RowsOf(hods, NovoHodometro.veiculo)
            anterior == hods[CHOOSE j \in anteriores : \A k \in anteriores : k <= j]
        IN  NovoHodometro.hodometro_diferenca
                = Some(NovoHodometro.hodometro - anterior.hodometro)]_vars

\* C9: a row with a null delta is the first of its vehicle's rows, so a
\* vehicle has at most one; a row created for a vehicle that has rows gets
\* a delta.
C9_NullIsFirst ==
    \A i \in 1..Len(hods) :
        hods[i].hodometro_diferenca = None =>
            \A j \in RowsOf(hods, hods[i].veiculo) : i <= j
C9_Step ==
    (HodometroInserted /\ RowsOf(hods, NovoHodometro.veiculo) # {}) =>
        NovoHodometro.hodometro_diferenca # None
C10_DeltaSincePriorRefuel ==
    [][(AbastecimentoInserted /\ RowsOf(abs, NovoAbastecimento.veiculo) # {}) =>
        LET anteriores == RowsOf(abs, NovoAbastecimento.veiculo)
            anterior == abs[CHOOSE j \in anteriores : \A k \in anteriores : k <= j]
        IN  NovoAbastecimento.hodometro_diferenca
                = Some(NovoAbastecimento.hodometro - anterior.hodometro)]_vars

\* the row of vehicle abs[i].veiculo that precedes row i in time
Precede(j, i) ==
    /\ j # i
    /\ abs[j].veiculo = abs[i].veiculo
    /\ abs[j].data_abastecimento < abs[i].data_abastecimento
    /\ \A k \in 1..Len(abs) :
        (abs[k].veiculo = abs[i].veiculo /\ abs[k].data_abastecimento < abs[i].data_abastecimento)
            => abs[k].data_abastecimento <= abs[j].data_abastecimento

\* C11: the days reported for a refueling row are the whole days since the
\* vehicle's row that precedes it in time, never negative, and None only
\* for the vehicle's earliest row, whatever the order of insertion.
C11_DiasEntre ==
    \A i \in 1..Len(abs) :
        LET dias == AbastecimentoSerializer_get_dias_entre_abastecimentos(i)
        IN  IF \E j \in 1..Len(abs) : Precede(j, i)
            THEN \E j \in 1..Len(abs) :
                    /\ Precede(j, i)
                    /\ dias = Some(Days(abs[i].data_abastecimento, abs[j].data_abastecimento))
                    /\ Val(dias) >= 0
            ELSE dias = None

\* a / b cut toward zero is r (b > 0)
IsTruncatedBy(a, b, r) ==
    IF a >= 0 THEN r * b <= a /\ a < (r + 1) * b
    ELSE a <= r * b /\ (r - 1) * b < a

\* C12: calcular_litros_por_dia gives liters / days cut toward zero to two
\* places when days > 0, (10, 3) giving 3.33, and None when days is absent,
\* zero or negative.
C12_LitrosPorDia ==
    fn.name = "calcular_litros_por_dia" =>
        LET l == Val(fn.args[1])
            d == fn.args[2]
        IN  /\ fn.out.raised = ""
            /\ IF d # None /\ Val(d) > 0
               THEN \E r \in -20000..20000 :
                        fn.out.ret = Some(Some(r)) /\ IsTruncatedBy(l, Val(d), r)
               ELSE fn.out.ret = Some(None)
            /\ (l = 1000 /\ d = Some(3)) => fn.out.ret = Some(Some(333))

\* a quotient whose third decimal would round up
C12_Witness ==
    /\ fn.name = "calcular_litros_por_dia"
    /\ fn.args = <<Some(20000), Some(3)>>
    /\ fn.out = Return(Some(6666))

\* C13: km_dias gives distance / days cut toward zero to an integer when
\* both are present and positive, and None whenever one is absent, zero or
\* negative.
C13_KmDias ==
    fn.name = "km_dias" =>
        LET km == fn.args[1]
            d == fn.args[2]
        IN  /\ fn.out.raised = ""
            /\ IF km # None /\ d # None /\ Val(km) > 0 /\ Val(d) > 0
               THEN \E r \in 0..100 :
                        fn.out.ret = Some(Some(r)) /\ IsTruncatedBy(Val(km), Val(d), r)
               ELSE fn.out.ret = Some(None)

\* 100 km in 7 days: 14.28... gives 14
C13_Witness ==
    /\ fn.name = "km_dias"
    /\ fn.args = <<Some(100), Some(7)>>
    /\ fn.out = Return(Some(14))

\* C14: a refueling create that succeeds adds exactly one refueling row and
\* exactly one odometer row, both of the same vehicle and user and with the
\* same odometer value.
C14_Step ==
    (abs' # abs /\ Len(abs') >= Len(abs)) =>
        /\ AbastecimentoInserted
        /\ HodometroInserted
        /\ NovoHodometro.veiculo = NovoAbastecimento.veiculo
        /\ NovoHodometro.usuario = NovoAbastecimento.usuario
        /\ NovoHodometro.hodometro = NovoAbastecimento.hodometro
C14_OneEventOneEntry == [][C14_Step]_vars

\* a refueling row entered by a user who does not own the vehicle, and its
\* odometer row
C14_Witness ==
    \E i \in 1..Len(abs) :
        /\ abs[i].usuario # Dono(abs[i].veiculo)
        /\ abs[i].hodometro > 0
        /\ \E j \in 1..Len(hods) :
            /\ hods[j].veiculo = abs[i].veiculo
            /\ hods[j].usuario = abs[i].usuario
            /\ hods[j].hodometro = abs[i].hodometro

\* C15: no request that is rejected leaves a row behind.  A refueling create
\* whose refueling row is stored is not rejected by its odometer insert.
C15_NoPartialWrite ==
    \A r \in reqs :
        r.pc = "hodometro" => AbastecimentoCreate_insert_hodometro_status(r) = "201"

\* C16: under vehicle create, update, soft-delete and activate, no two
\* active vehicles carry the same plate.
C16_UniqueActivePlate ==
    \A i, j \in 1..Len(veics) :
        (i # j /\ ~veics[i].is_deleted /\ ~veics[j].is_deleted) => veics[i].placa # veics[j].placa

\* the plate of a soft-deleted vehicle is asked for again, in another case,
\* and refused
C16_Witness ==
    \E i \in 1..Len(veics) :
        /\ veics[i].is_deleted
        /\ veics[i].placa = "AAA1111"
        /\ Len(veics) < MaxVeic
        /\ VeiculoCreate_status(2, "aaa1111") = "IntegrityError"

\* C17: a soft-deleted vehicle can be reactivated: activate on it succeeds
\* and leaves it with is_deleted = false.
C17_ReactivateSucceeds ==
    \A i \in 1..Len(veics) :
        veics[i].is_deleted => \E u \in Usuarios : VeiculoActivate_status(u, i) = "200"

\* C18: the user of every odometer row and of every refueling row is the
\* user who owns the row's vehicle; no user creates a ledger row for a
\* vehicle of another user.
C18_Ownership ==
    /\ \A i \in 1..Len(hods) : hods[i].usuario = Dono(hods[i].veiculo)
    /\ \A i \in 1..Len(abs) : abs[i].usuario = Dono(abs[i].veiculo)

\* C19: no request to the odometer or refueling endpoints removes a row:
\* each ledger keeps every row it has, step after step.
C19_Step ==
    /\ Len(hods') >= Len(hods)
    /\ Len(abs') >= Len(abs)
C19_NeverDeleted == [][C19_Step]_vars

\* the request whose refueling row this step inserts
Inserts(r) ==
    /\ r \in reqs
    /\ r.pc = "insert"
    /\ r \notin reqs'
    /\ [r EXCEPT !.pc = "hodometro"] \in reqs'
    /\ AbastecimentoInserted

\* the cumulative spend the request read is no longer the one of the
\* vehicle's latest row: a row of the vehicle was stored since
Stale(r) ==
    Val(r.abastecimento).total_gasto_abastecimento #
        AbastecimentoBehavior_calcular_total_gasto_abastecimento(Val(r.abastecimento).preco_total, r.veiculo)

\* C20: nothing is locked between the reads and the insert of a refueling
\* create: a request inserts the row it computed from the state it read, so
\* when another create for the vehicle has stored its row in between, the
\* later-stored row's cumulative spend is less than the sum of the total
\* prices of the vehicle's rows.
C20_Step ==
    \A r \in reqs :
        (Inserts(r) /\ Stale(r)) =>
            /\ NovoAbastecimento = Val(r.abastecimento)
            /\ NovoAbastecimento.total_gasto_abastecimento <
                   SumPrecoTotal(abs', RowsOf(abs', r.veiculo))
C20_LostUpdate == [][C20_Step]_vars

\* two rows of a vehicle, each computed from the empty ledger both requests
\* read: the later-stored cumulative spend is its own price only
C20_Witness ==
    /\ Len(abs) = 2
    /\ abs[1].veiculo = abs[2].veiculo
    /\ abs[1].total_gasto_abastecimento = abs[1].preco_total
    /\ abs[2].total_gasto_abastecimento = abs[2].preco_total
    /\ abs[2].hodometro_diferenca = abs[1].hodometro_diferenca
    /\ abs[2].total_gasto_abastecimento < SumPrecoTotal(abs, RowsOf(abs, abs[2].veiculo))

\* the i-th refueling row was created from these fields
Pedido(i, hodometro, total_litros, preco_combustivel) ==
    /\ abs[i].hodometro = hodometro
    /\ abs[i].total_litros = total_litros
    /\ abs[i].preco_combustivel = preco_combustivel

\* C21: on a vehicle with no entries, a first refueling create (40 l at
\* 5.00, odometer 10000) stores total price 200.00, no efficiency and
\* cumulative spend 200.00; a second one seven days later (35 l at 5.20,
\* odometer 10500) stores total price 182.00, delta 500, efficiency 14.28 and
\* cumulative spend 382.00, and reports 7 days, 5.00 liters a day and 71 km
\* a day.
C21_Scenario ==
    /\ (Len(abs) >= 1 /\ Pedido(1, 10000, 4000, 500)) =>
            /\ abs[1].preco_total = 20000
            /\ abs[1].desempenho_veiculo = None
            /\ abs[1].total_gasto_abastecimento = 20000
    /\ (/\ Len(abs) = 2
        /\ Pedido(1, 10000, 4000, 500)
        /\ Pedido(2, 10500, 3500, 520)
        /\ abs[2].veiculo = abs[1].veiculo
        /\ abs[2].data_abastecimento = abs[1].data_abastecimento + 14) =>
            /\ abs[2].preco_total = 18200
            /\ abs[2].hodometro_diferenca = Some(500)
            /\ abs[2].desempenho_veiculo = Some(1428)
            /\ abs[2].total_gasto_abastecimento = 38200
            /\ AbastecimentoSerializer_get_dias_entre_abastecimentos(2) = Some(7)
            /\ AbastecimentoSerializer_get_litros_por_dia(2) = Some(500)
            /\ AbastecimentoSerializer_get_km_dias(2) = Some(71)

\* C22: an update of an odometer row from old to new is accepted when
\* new >= old and then stores new and the delta new - old; with new < old it
\* is rejected.
C22_UpdateRederives ==
    \A i \in 1..Len(hods), hodometro \in Hodometros :
        LET old == hods[i].hodometro
            status == HodometroUpdate_status(hods[i].usuario, i, Some(hods[i].veiculo), Some(hodometro))
            salvo == HodometroSerializer_update(hods[i], hodometro)
        IN  IF hodometro >= old
            THEN /\ status = "200"
                 /\ salvo.hodometro = hodometro
                 /\ salvo.hodometro_diferenca = Some(hodometro - old)
            ELSE status # "200"

\* C23: an update of a refueling row that changes its odometer value is
\* rejected only when the new value is below the vehicle's last recorded
\* odometer value, and accepted otherwise.
C23_UpdateOdometer ==
    \A i \in 1..Len(abs), hodometro \in Hodometros :
        LET veiculo == abs[i].veiculo
            status == AbastecimentoUpdate_status(Dono(veiculo), i, Some(veiculo), Some(hodometro),
                                                 abs[i].total_litros, abs[i].preco_combustivel)
        IN  hodometro # abs[i].hodometro =>
                IF hodometro < UltimoValorHodometro(Some(veiculo))
                THEN status # "200"
                ELSE status = "200"

\* C24: an update of a refueling row that keeps its odometer value (liters
\* or price are edited) creates no odometer row and leaves the row's
\* hodometro and hodometro_diferenca as they were.
C24_Step ==
    (Len(abs') = Len(abs) /\ abs' # abs) =>
        /\ hods' = hods
        /\ \A i \in 1..Len(abs) :
            /\ abs'[i].hodometro = abs[i].hodometro
            /\ abs'[i].hodometro_diferenca = abs[i].hodometro_diferenca
C24_UpdateKeepsDelta == [][C24_Step]_vars

\* the step leaves the ledger rows of the vehicle as they are
SameLedgerOf(veiculo) ==
    /\ FilterVeiculo(hods', veiculo) = FilterVeiculo(hods, veiculo)
    /\ FilterVeiculo(abs', veiculo) = FilterVeiculo(abs, veiculo)

\* the rows a refueling create on the vehicle would store
NovoAbastecimentoDe(veiculo, hodometro, total_litros, preco_combustivel) ==
    Abastecimento_save(AbastecimentoSerializer_create_abastecimento(
        Dono(veiculo), veiculo, hodometro, total_litros, preco_combustivel, 1))

\* C25: the derived fields stored on the rows of a vehicle depend on the
\* vehicle's own rows only: in two states that differ in the ledgers of other
\* vehicles only (here, the two states of a step on another vehicle), the
\* same create on the vehicle stores the same row, and the same update of
\* one of its odometer rows stores the same row.
C25_Step ==
    \A veiculo \in Veiculos :
        SameLedgerOf(veiculo) =>
            /\ \A h \in Hodometros, l \in Litros, p \in Precos :
                    NovoAbastecimentoDe(veiculo, h, l, p)' = NovoAbastecimentoDe(veiculo, h, l, p)
            /\ \A h \in Hodometros :
                    HodometroSerializer_create(Dono(veiculo), veiculo, h)'
                        = HodometroSerializer_create(Dono(veiculo), veiculo, h)
            /\ \A i \in 1..Len(hods), h \in Hodometros :
                    hods[i].veiculo = veiculo =>
                        HodometroSerializer_update(hods[i], h)' = HodometroSerializer_update(hods[i], h)
C25_Isolation == [][C25_Step]_vars

\* a PositiveIntegerField column holds NULL or a value >= 0
NullOrNonNegative(hodometro_diferenca) ==
    hodometro_diferenca = None \/ Val(hodometro_diferenca) >= 0

\* C26: under creates and updates of both ledgers, every stored
\* hodometro_diferenca, of an odometer row or of a refueling row, is null or
\* a non-negative integer: no write that is accepted stores a negative delta.
C26_NonNegativeDelta ==
    /\ \A i \in 1..Len(hods) : NullOrNonNegative(hods[i].hodometro_diferenca)
    /\ \A i \in 1..Len(abs) : NullOrNonNegative(abs[i].hodometro_diferenca)

\* an odometer update that computes a negative delta, and is refused
C26_Witness ==
    \E i \in 1..Len(hods), h \in Hodometros :
        /\ Val(HodometroSerializer_update(hods[i], h).hodometro_diferenca) < 0
        /\ HodometroUpdate_status(hods[i].usuario, i, Some(hods[i].veiculo), Some(h)) = "IntegrityError"
        /\ Len(abs) > 0

====
